---------------------------- MODULE Spec2Model ----------------------------
(***************************************************************************)
(* BookBot (src/main.py, src/stats.py): one run of analyze_text over a     *)
(* document, statement by statement, with every analysis function of       *)
(* stats.py computed character by character.                               *)
(*                                                                         *)
(* A Python str is a sequence of one-character strings; a dict is the      *)
(* sequence of its items in insertion order (the order Python iterates     *)
(* it); a Python set has no such order: see IterationOrder.                *)
(***************************************************************************)
EXTENDS Integers, Sequences, FiniteSets, TLC

(***************************************************************************)
(* Bounds of the model.                                                    *)
(***************************************************************************)
\* A document body is an excerpt of at most this many paragraphs of Corpus.
MaxParas == 3

\* Hash seeds 1..MaxSeed, each giving the vocabulary set one iteration order.
MaxSeed == 2

\* Total word counts the filler brings a document to: one small value, then
\* one on each side of every threshold of the code (30 minutes of reading-time
\* spread is 11,250 words for technical and 14,000 for general text; 50,000
\* and 100,000 are the length bands of the summary).
WordTargets ==
    {12, 11249, 11250, 13999, 14000, 50000, 50001, 100000, 100001}

(***************************************************************************)
(* Characters.                                                             *)
(***************************************************************************)
UpperLetters ==
    <<"A","B","C","D","E","F","G","H","I","J","K","L","M",
      "N","O","P","Q","R","S","T","U","V","W","X","Y","Z">>

LowerLetters ==
    <<"a","b","c","d","e","f","g","h","i","j","k","l","m",
      "n","o","p","q","r","s","t","u","v","w","x","y","z">>

DigitChars ==
    <<"0","1","2","3","4","5","6","7","8","9">>

UpperSet == {UpperLetters[i] : i \in DOMAIN UpperLetters}

LowerSet == {LowerLetters[i] : i \in DOMAIN LowerLetters}

DigitSet == {DigitChars[i] : i \in DOMAIN DigitChars}

ToLower ==
    [c \in UpperSet |->
        LowerLetters[CHOOSE i \in DOMAIN UpperLetters : UpperLetters[i] = c]]

ToUpper ==
    [c \in LowerSet |->
        UpperLetters[CHOOSE i \in DOMAIN LowerLetters : LowerLetters[i] = c]]

\* c.lower() and c.upper() of one character.
char_lower(c) == IF c \in UpperSet THEN ToLower[c] ELSE c

char_upper(c) == IF c \in LowerSet THEN ToUpper[c] ELSE c

\* A cased character, for str.title().
CasedChars == UpperSet \cup LowerSet

IsCased(c) == c \in CasedChars

\* \w of the re module.
WordChars == UpperSet \cup LowerSet \cup DigitSet \cup {"_"}

IsWordChar(c) == c \in WordChars

\* The characters str.split() splits on, among those of the corpus.
Whitespace == {" ", "\t", "\n"}

(***************************************************************************)
(* The str methods the code uses.                                          *)
(***************************************************************************)
str_lower(s) == [i \in 1..Len(s) |-> char_lower(s[i])]

str_upper(s) == [i \in 1..Len(s) |-> char_upper(s[i])]

\* str.title(): a cased character is upper-cased when the character before
\* it is not cased (or there is none), lower-cased otherwise.
str_title(s) ==
    [i \in 1..Len(s) |->
        IF i = 1 \/ ~IsCased(s[i - 1]) THEN char_upper(s[i])
                                       ELSE char_lower(s[i])]

\* A Python loop "for i in range(lo, hi + 1): acc = Step(acc, i)".  It is
\* evaluated by halves, the first half before the second starts (the test
\* on left makes it so), which keeps the evaluation shallow on long texts.
RECURSIVE Loop(_, _, _, _)
Loop(Step(_, _), lo, hi, acc) ==
    IF lo > hi THEN acc
    ELSE IF lo = hi THEN Step(acc, lo)
    ELSE LET mid  == (lo + hi) \div 2
             left == Loop(Step, lo, mid, acc)
         IN  IF left = left THEN Loop(Step, mid + 1, hi, left) ELSE left

\* sub occurs in s starting at position i.
StartsAt(s, i, sub) ==
    /\ i + Len(sub) - 1 <= Len(s)
    /\ \A j \in 1..Len(sub) : s[i + j - 1] = sub[j]

\* \b of the re module, between positions i - 1 and i
WordAt(s, i) == i \in 1..Len(s) /\ IsWordChar(s[i])

Boundary(s, i) == WordAt(s, i - 1) # WordAt(s, i)

\* sub in s
str_contains(s, sub) ==
    \E i \in 1..(Len(s) - Len(sub) + 1) : StartsAt(s, i, sub)

\* The same test for a function that puts it to every term of a table: the
\* pieces of two and of three characters of s are collected once, and s is
\* scanned only for a term whose first three characters are among them (a
\* text without them holds no occurrence of the term).
Pieces(s, m) == {SubSeq(s, i, i + m - 1) : i \in 1..(Len(s) - m + 1)}

TextIndex(s) == [str |-> s, two |-> Pieces(s, 2), three |-> Pieces(s, 3)]

index_contains(ix, sub) ==
    IF Len(sub) = 2 THEN sub \in ix.two
    ELSE IF Len(sub) >= 3
         THEN SubSeq(sub, 1, 3) \in ix.three /\ str_contains(ix.str, sub)
    ELSE str_contains(ix.str, sub)

Minimum(S) == CHOOSE x \in S : \A y \in S : x <= y

\* The positions at or after from among starts, taken left to right, each
\* at least width past the one taken before it.
RECURSIVE LeftToRight(_, _, _)
LeftToRight(starts, width, from) ==
    LET rest == {p \in starts : p >= from}
    IN  IF rest = {} THEN <<>>
        ELSE <<Minimum(rest)>> \o LeftToRight(rest, width, Minimum(rest) + width)

\* s.count(sub): occurrences that do not overlap, found left to right.
str_count(s, sub) ==
    Len(LeftToRight({i \in 1..(Len(s) - Len(sub) + 1) : StartsAt(s, i, sub)},
                    Len(sub), 1))

\* s.replace(old, new)
ReplaceStep(s, old, new, scan, i) ==
    IF i < scan.next THEN scan
    ELSE IF StartsAt(s, i, old)
         THEN [out |-> scan.out \o new, next |-> i + Len(old)]
    ELSE [out |-> Append(scan.out, s[i]), next |-> i + 1]

str_replace(s, old, new) ==
    Loop(LAMBDA scan, i : ReplaceStep(s, old, new, scan, i), 1, Len(s),
         [out |-> <<>>, next |-> 1]).out

\* s.split(): whitespace ends the word being read, any other character
\* extends it or starts a new one.
SplitStep(s, scan, i) ==
    IF s[i] \in Whitespace THEN [words |-> scan.words, inword |-> FALSE]
    ELSE IF scan.inword
         THEN [words  |-> [scan.words EXCEPT ![Len(scan.words)] = Append(@, s[i])],
               inword |-> TRUE]
    ELSE [words |-> Append(scan.words, <<s[i]>>), inword |-> TRUE]

str_split(s) ==
    Loop(LAMBDA scan, i : SplitStep(s, scan, i), 1, Len(s),
         [words |-> <<>>, inword |-> FALSE]).words

\* str(n) of a natural number.
RECURSIVE int_str(_)
int_str(n) ==
    IF n < 10 THEN <<DigitChars[n + 1]>>
    ELSE int_str(n \div 10) \o <<DigitChars[(n % 10) + 1]>>

(***************************************************************************)
(* The book of the model: a sequence of paragraphs, chosen so that its      *)
(* excerpts meet every threshold of the code from both sides.               *)
(***************************************************************************)
\* the spec's character-count scenario: 5 words, 'H' twice and no 'h'
\*   'Hello world! How are you?'
ParaHello ==
    <<"H","e","l","l","o"," ","w","o","r","l","d","!"," ","H","o","w"," ","a","r","e"," ","y","o","u","?">>

\* whitespace only: no word at all
\*   ' \t\n '
ParaBlank ==
    <<" ","\t","\n"," ">>

\* leading and trailing whitespace, runs of spaces, a tab and newlines
\*   ' \tTabs,  spaces\n\nand lines \n'
ParaWhitespace ==
    <<" ","\t","T","a","b","s",","," "," ","s","p","a","c","e","s","\n","\n","a","n","d"," ","l","i","n","e","s"," ","\n">>

\* a best-practice marker and classifier score 2
\*   'Best practice: one database per team. '
ParaPractice ==
    <<"B","e","s","t"," ","p","r","a","c","t","i","c","e",":"," ","o","n","e"," ","d","a","t","a","b","a","s","e"," ","p","e","r"," ","t","e","a","m","."," ">>

\* a practical-content marker and classifier score 7
\*   'Step by step tutorial: a Python API server. '
ParaTutorial ==
    <<"S","t","e","p"," ","b","y"," ","s","t","e","p"," ","t","u","t","o","r","i","a","l",":"," ","a"," ","P","y","t","h","o","n"," ","A","P","I"," ","s","e","r","v","e","r","."," ">>

\* classifier score 3: with ParaTutorial exactly 10
\*   'HTTP is a protocol. '
ParaProtocol ==
    <<"H","T","T","P"," ","i","s"," ","a"," ","p","r","o","t","o","c","o","l","."," ">>

\* API twice (a third time with a neighbour) and six acronyms once
\*   'REST API: JSON and XML over TCP. The API checks a JWT on AWS behind a CDN. '
ParaRest ==
    <<"R","E","S","T"," ","A","P","I",":"," ","J","S","O","N"," ","a","n","d"," ","X","M","L"," ","o","v","e","r"," ","T","C","P","."," ","T","h","e"," ","A","P","I"," ","c","h","e","c","k","s"," ","a"," ","J","W","T"," ","o","n"," ","A","W","S"," ","b","e","h","i","n","d"," ","a"," ","C","D","N","."," ">>

\* eleven acronyms, AWS four times and the others three times each: more than ten concepts, ten of them level
\*   'AWS GCP CDN VPC RDS EC2 TCP UDP JWT XML JSON. aws gcp cdn vpc rds ec2 tcp udp jwt xml json: AWS! Aws Gcp Cdn Vpc Rds Ec2 Tcp Udp Jwt Xml Json. '
ParaStack ==
    <<"A","W","S"," ","G","C","P"," ","C","D","N"," ","V","P","C"," ","R","D","S"," ","E","C","2"," ","T","C","P"," ","U","D","P"," ","J","W","T"," ","X","M","L"," ","J","S","O","N","."," ","a","w","s"," ","g","c","p"," ","c","d","n"," ","v","p","c"," ","r","d","s"," ","e","c","2"," ","t","c","p"," ","u","d","p"," ","j","w","t"," ","x","m","l"," ","j","s","o","n",":"," ","A","W","S","!"," ","A","w","s"," ","G","c","p"," ","C","d","n"," ","V","p","c"," ","R","d","s"," ","E","c","2"," ","T","c","p"," ","U","d","p"," ","J","w","t"," ","X","m","l"," ","J","s","o","n","."," ">>

\* a product name twice: below the vocabulary threshold, at the product-name threshold
\*   'MongoDB stores JSON. MongoDB scales. '
ParaMongo ==
    <<"M","o","n","g","o","D","B"," ","s","t","o","r","e","s"," ","J","S","O","N","."," ","M","o","n","g","o","D","B"," ","s","c","a","l","e","s","."," ">>

\* the product name a third time, and two vocabulary terms once
\*   'Sharding and caching on MongoDB. '
ParaShard ==
    <<"S","h","a","r","d","i","n","g"," ","a","n","d"," ","c","a","c","h","i","n","g"," ","o","n"," ","M","o","n","g","o","D","B","."," ">>

\* product names with a dot and with a space, twice each
\*   'Node.js with Spring Boot. Node.js or Spring Boot? '
ParaNode ==
    <<"N","o","d","e",".","j","s"," ","w","i","t","h"," ","S","p","r","i","n","g"," ","B","o","o","t","."," ","N","o","d","e",".","j","s"," ","o","r"," ","S","p","r","i","n","g"," ","B","o","o","t","?"," ">>

\* six vocabulary terms three times each, both kinds of marker, classifier score 12
\*   'Example architecture: Python, Java, SQL, Redis, Docker on Azure. python java sql redis docker azure. PYTHON JAVA SQL REDIS DOCKER AZURE '
ParaPlatform ==
    <<"E","x","a","m","p","l","e"," ","a","r","c","h","i","t","e","c","t","u","r","e",":"," ","P","y","t","h","o","n",","," ","J","a","v","a",","," ","S","Q","L",","," ","R","e","d","i","s",","," ","D","o","c","k","e","r"," ","o","n"," ","A","z","u","r","e","."," ","p","y","t","h","o","n"," ","j","a","v","a"," ","s","q","l"," ","r","e","d","i","s"," ","d","o","c","k","e","r"," ","a","z","u","r","e","."," ","P","Y","T","H","O","N"," ","J","A","V","A"," ","S","Q","L"," ","R","E","D","I","S"," ","D","O","C","K","E","R"," ","A","Z","U","R","E"," ">>

\* the spec's classifier scenario: algorithm x5, architecture x3, security x3
\*   'algorithm algorithm algorithm algorithm algorithm architecture architecture architecture security security security'
ParaScenario ==
    <<"a","l","g","o","r","i","t","h","m"," ","a","l","g","o","r","i","t","h","m"," ","a","l","g","o","r","i","t","h","m"," ","a","l","g","o","r","i","t","h","m"," ","a","l","g","o","r","i","t","h","m"," ","a","r","c","h","i","t","e","c","t","u","r","e"," ","a","r","c","h","i","t","e","c","t","u","r","e"," ","a","r","c","h","i","t","e","c","t","u","r","e"," ","s","e","c","u","r","i","t","y"," ","s","e","c","u","r","i","t","y"," ","s","e","c","u","r","i","t","y">>

Corpus ==
    << ParaHello,
       ParaBlank,
       ParaWhitespace,
       ParaPractice,
       ParaTutorial,
       ParaProtocol,
       ParaRest,
       ParaStack,
       ParaMongo,
       ParaShard,
       ParaNode,
       ParaPlatform,
       ParaScenario >>

(***************************************************************************)
(* The tables of stats.py.                                                 *)
(***************************************************************************)
\* technical_indicators: the dict's items, (term, weight).
technical_indicators ==
    << << <<"a","l","g","o","r","i","t","h","m">>, 3 >>,
       << <<"a","r","c","h","i","t","e","c","t","u","r","e">>, 3 >>,
       << <<"s","c","a","l","a","b","i","l","i","t","y">>, 3 >>,
       << <<"o","p","t","i","m","i","z","a","t","i","o","n">>, 3 >>,
       << <<"i","m","p","l","e","m","e","n","t","a","t","i","o","n">>, 3 >>,
       << <<"p","e","r","f","o","r","m","a","n","c","e">>, 3 >>,
       << <<"s","e","c","u","r","i","t","y">>, 3 >>,
       << <<"p","r","o","t","o","c","o","l">>, 3 >>,
       << <<"a","p","i">>, 2 >>,
       << <<"f","r","a","m","e","w","o","r","k">>, 2 >>,
       << <<"l","i","b","r","a","r","y">>, 2 >>,
       << <<"d","a","t","a","b","a","s","e">>, 2 >>,
       << <<"s","e","r","v","e","r">>, 2 >>,
       << <<"f","u","n","c","t","i","o","n">>, 2 >>,
       << <<"m","e","t","h","o","d">>, 2 >>,
       << <<"c","l","a","s","s">>, 2 >>,
       << <<"o","b","j","e","c","t">>, 2 >>,
       << <<"v","a","r","i","a","b","l","e">>, 2 >>,
       << <<"c","o","d","i","n","g">>, 2 >>,
       << <<"p","r","o","g","r","a","m","m","i","n","g">>, 2 >>,
       << <<"d","e","v","e","l","o","p","m","e","n","t">>, 2 >>,
       << <<"s","o","f","t","w","a","r","e">>, 2 >>,
       << <<"s","y","s","t","e","m">>, 1 >>,
       << <<"n","e","t","w","o","r","k">>, 1 >>,
       << <<"s","e","r","v","i","c","e">>, 1 >>,
       << <<"p","l","a","t","f","o","r","m">>, 1 >>,
       << <<"a","p","p","l","i","c","a","t","i","o","n">>, 1 >> >>

\* programming_languages
programming_languages ==
    << <<"p","y","t","h","o","n">>,
       <<"j","a","v","a">>,
       <<"j","a","v","a","s","c","r","i","p","t">>,
       <<"g","o">>,
       <<"r","u","s","t">>,
       <<"s","q","l">>,
       <<"h","t","m","l">>,
       <<"c","s","s">> >>

\* known_technical_terms, in the order the set display lists them.  The set
\* itself has no order: IterationOrder gives the order of a run.
known_technical_terms ==
    << <<"l","o","a","d"," ","b","a","l","a","n","c","e","r">>,
       <<"m","i","c","r","o","s","e","r","v","i","c","e">>,
       <<"m","o","n","o","l","i","t","h">>,
       <<"a","p","i"," ","g","a","t","e","w","a","y">>,
       <<"s","e","r","v","i","c","e"," ","m","e","s","h">>,
       <<"c","a","c","h","i","n","g">>,
       <<"s","h","a","r","d","i","n","g">>,
       <<"r","e","p","l","i","c","a","t","i","o","n">>,
       <<"c","o","n","s","i","s","t","e","n","c","y">>,
       <<"a","v","a","i","l","a","b","i","l","i","t","y">>,
       <<"c","a","p"," ","t","h","e","o","r","e","m">>,
       <<"h","o","r","i","z","o","n","t","a","l"," ","s","c","a","l","i","n","g">>,
       <<"v","e","r","t","i","c","a","l"," ","s","c","a","l","i","n","g">>,
       <<"m","o","n","g","o","d","b">>,
       <<"p","o","s","t","g","r","e","s","q","l">>,
       <<"m","y","s","q","l">>,
       <<"r","e","d","i","s">>,
       <<"e","l","a","s","t","i","c","s","e","a","r","c","h">>,
       <<"d","y","n","a","m","o","d","b">>,
       <<"c","a","s","s","a","n","d","r","a">>,
       <<"n","e","o","4","j">>,
       <<"r","d","b","m","s">>,
       <<"n","o","s","q","l">>,
       <<"a","c","i","d">>,
       <<"s","q","l">>,
       <<"a","w","s">>,
       <<"a","z","u","r","e">>,
       <<"g","c","p">>,
       <<"k","u","b","e","r","n","e","t","e","s">>,
       <<"d","o","c","k","e","r">>,
       <<"c","l","o","u","d","f","r","o","n","t">>,
       <<"l","a","m","b","d","a">>,
       <<"e","c","2">>,
       <<"s","3">>,
       <<"r","d","s">>,
       <<"v","p","c">>,
       <<"c","d","n">>,
       <<"p","y","t","h","o","n">>,
       <<"j","a","v","a">>,
       <<"j","a","v","a","s","c","r","i","p","t">>,
       <<"t","y","p","e","s","c","r","i","p","t">>,
       <<"g","o">>,
       <<"r","u","s","t">>,
       <<"r","e","a","c","t">>,
       <<"a","n","g","u","l","a","r">>,
       <<"v","u","e">>,
       <<"s","p","r","i","n","g">>,
       <<"d","j","a","n","g","o">>,
       <<"f","l","a","s","k">>,
       <<"e","x","p","r","e","s","s">>,
       <<"h","t","t","p">>,
       <<"h","t","t","p","s">>,
       <<"t","c","p">>,
       <<"u","d","p">>,
       <<"w","e","b","s","o","c","k","e","t">>,
       <<"g","r","p","c">>,
       <<"g","r","a","p","h","q","l">>,
       <<"r","e","s","t">>,
       <<"a","p","i">>,
       <<"j","s","o","n">>,
       <<"x","m","l">>,
       <<"o","a","u","t","h">>,
       <<"j","w","t">>,
       <<"m","i","c","r","o","s","e","r","v","i","c","e","s">>,
       <<"e","v","e","n","t"," ","d","r","i","v","e","n">>,
       <<"m","e","s","s","a","g","e"," ","q","u","e","u","e">>,
       <<"p","u","b"," ","s","u","b">>,
       <<"c","i","r","c","u","i","t"," ","b","r","e","a","k","e","r">>,
       <<"b","u","l","k","h","e","a","d">>,
       <<"s","a","g","a"," ","p","a","t","t","e","r","n">> >>

\* exclusions
exclusions ==
    << <<"a","f","t","e","r","w","o","r","d">>,
       <<"c","h","a","p","t","e","r">>,
       <<"s","e","c","t","i","o","n">>,
       <<"f","i","g","u","r","e">>,
       <<"t","a","b","l","e">>,
       <<"p","a","g","e">>,
       <<"i","n","t","r","o","d","u","c","t","i","o","n">>,
       <<"c","o","n","c","l","u","s","i","o","n">>,
       <<"s","u","m","m","a","r","y">>,
       <<"a","p","p","e","n","d","i","x">>,
       <<"i","n","d","e","x">>,
       <<"u","s","e","r","s">>,
       <<"u","s","e","r">>,
       <<"d","a","t","a">>,
       <<"s","y","s","t","e","m">>,
       <<"s","e","r","v","i","c","e">>,
       <<"w","e","b">>,
       <<"s","t","o","r","e">>,
       <<"d","r","i","v","e">>,
       <<"f","i","l","e">>,
       <<"t","i","m","e">>,
       <<"w","a","y">>,
       <<"e","x","a","m","p","l","e">>,
       <<"p","r","o","b","l","e","m">>,
       <<"s","o","l","u","t","i","o","n">>,
       <<"m","e","t","h","o","d">>,
       <<"i","n","f","o","r","m","a","t","i","o","n">>,
       <<"r","e","s","u","l","t">>,
       <<"p","r","o","c","e","s","s">>,
       <<"w","o","r","k">>,
       <<"t","e","a","m">>,
       <<"c","o","m","p","a","n","y">> >>

\* The list term.upper() is looked up in.
acronyms ==
    << <<"A","P","I">>,
       <<"H","T","T","P">>,
       <<"H","T","T","P","S">>,
       <<"T","C","P">>,
       <<"U","D","P">>,
       <<"S","Q","L">>,
       <<"J","S","O","N">>,
       <<"X","M","L">>,
       <<"J","W","T">>,
       <<"A","W","S">>,
       <<"G","C","P">>,
       <<"C","D","N">>,
       <<"V","P","C">>,
       <<"R","D","S">>,
       <<"E","C","2">>,
       <<"S","3">> >>

\* The alternatives of the product-name pattern, in the order the regular
\* expression tries them.
tech_name_pattern ==
    << <<"M","o","n","g","o","D","B">>,
       <<"P","o","s","t","g","r","e","S","Q","L">>,
       <<"M","y","S","Q","L">>,
       <<"R","e","d","i","s">>,
       <<"E","l","a","s","t","i","c","s","e","a","r","c","h">>,
       <<"D","y","n","a","m","o","D","B">>,
       <<"C","a","s","s","a","n","d","r","a">>,
       <<"N","e","o","4","j">>,
       <<"C","l","o","u","d","F","r","o","n","t">>,
       <<"W","e","b","S","o","c","k","e","t">>,
       <<"J","a","v","a","S","c","r","i","p","t">>,
       <<"T","y","p","e","S","c","r","i","p","t">>,
       <<"N","o","d","e",".","j","s">>,
       <<"N","e","x","t",".","j","s">>,
       <<"S","p","r","i","n","g"," ","B","o","o","t">>,
       <<"R","e","a","c","t"," ","N","a","t","i","v","e">> >>

(***************************************************************************)
(* A document.  The text the program reads is                              *)
(*                                                                         *)
(*     body \o FillerWord \o FillerWord \o ... (filler times)              *)
(*                                                                         *)
(* The filler stands for the bulk of a book: the length bands of the       *)
(* summary and the reading-time range start at tens of thousands of words. *)
(* FillerWord is whitespace followed by a character that is in no table of *)
(* stats.py, is not cased and is not a word character, so every filler     *)
(* word is one more token, two more characters, and takes part in no       *)
(* match: the functions below scan the body and account for the filler by  *)
(* its count.  FillerExact checks that against the expanded text.          *)
(***************************************************************************)
FillerWord == <<" ", "#">>

RECURSIVE Repeat(_, _)
Repeat(s, n) == IF n = 0 THEN <<>> ELSE s \o Repeat(s, n - 1)

\* The text of a document, character by character.
Expand(text) == text.body \o Repeat(FillerWord, text.filler)

(***************************************************************************)
(* get_num_words                                                           *)
(***************************************************************************)
\* A faulty variant: text.split(' '), which cuts at every single space only.
get_num_words_by_space(text) ==
    Cardinality({i \in 1..Len(text.body) : text.body[i] = " "}) + 1 + text.filler

get_num_words(text) == Len(str_split(text.body)) + text.filler

(***************************************************************************)
(* get_chars_dict: the loop over the characters, then the filler's         *)
(* characters, which follow the body's.                                    *)
(***************************************************************************)
HasKey(d, c) == \E k \in 1..Len(d) : d[k][1] = c

\* chars[lowered] += n, or chars[lowered] = n for a new key
Increment(d, c, n) ==
    IF HasKey(d, c)
    THEN [k \in 1..Len(d) |-> IF d[k][1] = c THEN <<c, d[k][2] + n>> ELSE d[k]]
    ELSE Append(d, <<c, n>>)

\* A faulty variant: the character is counted as it stands, not lowered.
CountCharsCased(s) ==
    Loop(LAMBDA chars, i : Increment(chars, s[i], 1), 1, Len(s), <<>>)

\* for c in text: ...
CountChars(s) ==
    Loop(LAMBDA chars, i : Increment(chars, char_lower(s[i]), 1), 1, Len(s), <<>>)

get_chars_dict(text) ==
    LET chars == CountChars(text.body)
    IN  IF text.filler = 0 THEN chars
        ELSE Increment(Increment(chars, char_lower(FillerWord[1]), text.filler),
                       char_lower(FillerWord[2]), text.filler)

(***************************************************************************)
(* sort_on, chars_dict_to_sorted_list.  list.sort is stable, also with     *)
(* reverse=True: an item goes behind every item whose key is not smaller.  *)
(***************************************************************************)
sort_on(d) == d.num

\* A faulty variant: an ascending sort reversed, which turns around the items
\* of equal key.
InsertAheadOfEqual(sorted, x) ==
    LET p == Cardinality({j \in 1..Len(sorted) : sort_on(sorted[j]) > sort_on(x)})
    IN  SubSeq(sorted, 1, p) \o <<x>> \o SubSeq(sorted, p + 1, Len(sorted))

InsertDescending(sorted, x) ==
    LET p == Cardinality({j \in 1..Len(sorted) : sort_on(sorted[j]) >= sort_on(x)})
    IN  SubSeq(sorted, 1, p) \o <<x>> \o SubSeq(sorted, p + 1, Len(sorted))

SortDescending(list) ==
    Loop(LAMBDA sorted, i : InsertDescending(sorted, list[i]), 1, Len(list), <<>>)

chars_dict_to_sorted_list(num_chars_dict) ==
    LET sorted_list ==
            [k \in 1..Len(num_chars_dict) |->
                [char |-> num_chars_dict[k][1], num |-> num_chars_dict[k][2]]]
    IN  SortDescending(sorted_list)

(***************************************************************************)
(* detect_technical_content                                                *)
(***************************************************************************)
\* A faulty variant: the weight is added once per occurrence of the term.
ScoreIndicatorsByCount(text_lower, score) ==
    Loop(LAMBDA sc, k :
             sc + (technical_indicators[k][2]
                       * str_count(text_lower.str, technical_indicators[k][1])),
         1, Len(technical_indicators), score)

\* for term, weight in technical_indicators.items(): ...
ScoreIndicators(text_lower, score) ==
    Loop(LAMBDA sc, k : IF index_contains(text_lower, technical_indicators[k][1])
                        THEN sc + technical_indicators[k][2]
                        ELSE sc,
         1, Len(technical_indicators), score)

\* A faulty variant: a language name counts only where it stands as a word.
ScoreLanguagesWholeWord(text_lower, score) ==
    Loop(LAMBDA sc, k :
             IF \E i \in 1..Len(text_lower.str) :
                    /\ StartsAt(text_lower.str, i, programming_languages[k])
                    /\ Boundary(text_lower.str, i)
                    /\ Boundary(text_lower.str, i + Len(programming_languages[k]))
             THEN sc + 3
             ELSE sc,
         1, Len(programming_languages), score)

\* for lang in programming_languages: ...
ScoreLanguages(text_lower, score) ==
    Loop(LAMBDA sc, k : IF index_contains(text_lower, programming_languages[k])
                        THEN sc + 3
                        ELSE sc,
         1, Len(programming_languages), score)

ScoreText(text_lower) == ScoreLanguages(text_lower, ScoreIndicators(text_lower, 0))

\* A faulty variant: only the first 120 characters of the text are scored.
technical_score_sample(text) ==
    ScoreText(TextIndex(str_lower(
        SubSeq(text.body, 1, IF Len(text.body) < 120 THEN Len(text.body) ELSE 120))))

\* The value of score at the return statement.
technical_score(text) == ScoreText(TextIndex(str_lower(text.body)))

detect_technical_content(text) == technical_score(text) >= 10

(***************************************************************************)
(* estimate_reading_time.  The code divides in floating point; the model   *)
(* keeps the quotients exact, as fractions.  For a word count below 2^53   *)
(* the two agree: a quotient that is a whole number is computed exactly,   *)
(* and any other is further from a whole number than the rounding error.   *)
(***************************************************************************)
Fraction(n, d) == [num |-> n, den |-> d]

frac_add(a, b) == Fraction((a.num * b.den) + (b.num * a.den), a.den * b.den)

frac_sub(a, b) == Fraction((a.num * b.den) - (b.num * a.den), a.den * b.den)

frac_abs(a) == Fraction(IF a.num < 0 THEN 0 - a.num ELSE a.num, a.den)

frac_div(a, k) == Fraction(a.num, a.den * k)

\* a < k
frac_less(a, k) == a.num < k * a.den

\* int(a // k) and int(a % k), for a >= 0
frac_floordiv(a, k) == a.num \div (a.den * k)

frac_floormod(a, k) == (a.num \div a.den) % k

\* A faulty variant: a part that is zero is left out, the minutes too.
format_time_nonzero_parts(minutes) ==
    (IF frac_floordiv(minutes, 60) > 0
     THEN int_str(frac_floordiv(minutes, 60)) \o <<"h">> ELSE <<>>)
    \o (IF frac_floordiv(minutes, 60) > 0 /\ frac_floormod(minutes, 60) > 0
        THEN <<" ">> ELSE <<>>)
    \o (IF frac_floormod(minutes, 60) > 0
        THEN int_str(frac_floormod(minutes, 60)) \o <<"m">> ELSE <<>>)

format_time(minutes) ==
    LET hours == frac_floordiv(minutes, 60)
        mins  == frac_floormod(minutes, 60)
    IN  IF hours > 0
        THEN int_str(hours) \o <<"h", " ">> \o int_str(mins) \o <<"m">>
        ELSE int_str(mins) \o <<"m">>

\* A faulty variant: a difference of exactly 30 minutes still gives "~".
ReadingRangeInclusive(fast_minutes, slow_minutes) ==
    IF frac_less(frac_abs(frac_sub(fast_minutes, slow_minutes)), 30)
       \/ frac_sub(fast_minutes, slow_minutes).num
              = (0 - 30) * frac_sub(fast_minutes, slow_minutes).den
    THEN <<"~">> \o format_time(frac_div(frac_add(fast_minutes, slow_minutes), 2))
    ELSE format_time(fast_minutes) \o <<" ", "-", " ">> \o format_time(slow_minutes)

\* The statements after the speeds are chosen.
ReadingRange(fast_minutes, slow_minutes) ==
    IF frac_less(frac_abs(frac_sub(fast_minutes, slow_minutes)), 30)
    THEN <<"~">> \o format_time(frac_div(frac_add(fast_minutes, slow_minutes), 2))
    ELSE format_time(fast_minutes) \o <<" ", "-", " ">> \o format_time(slow_minutes)

ReadingTimeOf(word_count, is_technical) ==
    IF is_technical
    THEN ReadingRange(Fraction(word_count, 250), Fraction(word_count, 150))
    ELSE ReadingRange(Fraction(word_count, 350), Fraction(word_count, 200))

estimate_reading_time(text) ==
    ReadingTimeOf(get_num_words(text), detect_technical_content(text))

(***************************************************************************)
(* extract_key_concepts                                                    *)
(***************************************************************************)
\* The order in which "for term in known_technical_terms" visits the set.
\* CPython walks the set's hash table, and the hash of a str is salted per
\* process (PYTHONHASHSEED): the order is a permutation of the terms, fixed
\* within a run and free between runs.  The model draws it from a family of
\* permutations indexed by the seed: a rotation of the listed order, forward
\* for odd seeds and backward for even ones.
IterationOrder(seed) ==
    LET n       == Len(known_technical_terms)
        shift   == (seed - 1) \div 2
        rotated == [k \in 1..n |-> known_technical_terms[((k - 1 + shift) % n) + 1]]
    IN  IF seed % 2 = 1 THEN rotated
        ELSE [k \in 1..n |-> rotated[n + 1 - k]]

SeqToSet(s) == {s[k] : k \in 1..Len(s)}

AcronymSet == SeqToSet(acronyms)

ExclusionSet == SeqToSet(exclusions)

\* The display form of a vocabulary term.
DisplayForm(term) ==
    IF str_upper(term) \in AcronymSet THEN str_upper(term)
    ELSE IF term \in {<<"n","o","s","q","l">>, <<"g","r","p","c">>,
                      <<"g","r","a","p","h","q","l">>}
         THEN str_replace(
                  str_replace(
                      str_replace(term, <<"n","o","s","q","l">>,
                                        <<"N","o","S","Q","L">>),
                      <<"g","r","p","c">>, <<"g","R","P","C">>),
                  <<"g","r","a","p","h","q","l">>,
                  <<"G","r","a","p","h","Q","L">>)
    ELSE str_title(term)

\* count = text_lower.count(term), for a term that is in text_lower
CountTerms(text_lower, order) ==
    [k \in 1..Len(order) |->
        <<order[k],
          IF index_contains(text_lower, order[k])
          THEN str_count(text_lower.str, order[k])
          ELSE 0>>]

\* if count >= least
AtLeast(counted, least) == SelectSeq(counted, LAMBDA p : p[2] >= least)

Displayed(kept) == [k \in 1..Len(kept) |-> <<DisplayForm(kept[k][1]), kept[k][2]>>]

\* 1. the vocabulary terms found at least 3 times, in iteration order
VocabularyConcepts(text_lower, order) ==
    Displayed(AtLeast(CountTerms(text_lower, order), 3))

\* The alternatives of \b(?:...)\b that match at position i.
AlternativesAt(s, i) ==
    IF ~Boundary(s, i) THEN {}
    ELSE {k \in 1..Len(tech_name_pattern) :
             /\ StartsAt(s, i, tech_name_pattern[k])
             /\ Boundary(s, i + Len(tech_name_pattern[k]))}

\* re.findall: the matches left to right, none overlapping another, the
\* first alternative that matches taken at each position.
FindAllStep(s, scan, i) ==
    IF i >= scan.next
    THEN LET name == tech_name_pattern[Minimum(AlternativesAt(s, i))]
         IN  [matches |-> Append(scan.matches, name), next |-> i + Len(name)]
    ELSE scan

MatchesAt(s, starts) ==
    Loop(LAMBDA scan, k : FindAllStep(s, scan, starts[k]), 1, Len(starts),
         [matches |-> <<>>, next |-> 1]).matches

\* The elements of a set of numbers, in increasing order.
Ascending(S) == LeftToRight(S, 1, Minimum(S \cup {0}))

re_findall(s) ==
    MatchesAt(s, Ascending({i \in 1..Len(s) : AlternativesAt(s, i) # {}}))

CountNames(s, tech_names) ==
    [k \in 1..Len(tech_names) |-> <<tech_names[k], str_count(s, tech_names[k])>>]

\* 2. one entry per match of a product name that occurs at least twice
ProductConcepts(s) == AtLeast(CountNames(s, re_findall(s)), 2)

found_concepts(text, seed) ==
    VocabularyConcepts(TextIndex(str_lower(text.body)), IterationOrder(seed))
        \o ProductConcepts(text.body)

\* concept.lower().replace(' ', '').replace('.', '').replace('-', '')
NormalKey(concept) ==
    str_replace(str_replace(str_replace(str_lower(concept),
        <<" ">>, <<>>), <<".">>, <<>>), <<"-">>, <<>>)

\* concept_groups, a dict: items (key, (concept, count)) in insertion order.
\* Assigning to a key the dict holds replaces its value where it stands.
\* (PutGroupAlways is a faulty variant: every concept found gets an entry of
\* its own, whatever its key.)
PutGroupAlways(groups, key, concept, count) ==
    Append(groups, <<key, concept, count>>)

\* A faulty variant: "count >= ...", so of equal counts the last one stays.
PutGroupLastOfEqual(groups, key, concept, count) ==
    IF ~\E k \in 1..Len(groups) : groups[k][1] = key
    THEN Append(groups, <<key, concept, count>>)
    ELSE [k \in 1..Len(groups) |->
            IF groups[k][1] = key /\ count >= groups[k][3]
            THEN <<key, concept, count>>
            ELSE groups[k]]

PutGroup(groups, key, concept, count) ==
    IF ~\E k \in 1..Len(groups) : groups[k][1] = key
    THEN Append(groups, <<key, concept, count>>)
    ELSE [k \in 1..Len(groups) |->
            IF groups[k][1] = key /\ count > groups[k][3]
            THEN <<key, concept, count>>
            ELSE groups[k]]

\* for concept, count in found_concepts: ...
GroupConcepts(found) ==
    Loop(LAMBDA groups, i :
             PutGroup(groups, NormalKey(found[i][1]), found[i][1], found[i][2]),
         1, Len(found), <<>>)

concept_groups(text, seed) == GroupConcepts(found_concepts(text, seed))

\* A faulty variant: the test of the length is missing.
SurvivesAnyLength(concept) == str_lower(concept) \notin ExclusionSet

\* if concept.lower() not in exclusions and len(concept) >= 3
Survives(concept) ==
    /\ str_lower(concept) \notin ExclusionSet
    /\ Len(concept) >= 3

GroupValues(groups) == [k \in 1..Len(groups) |-> <<groups[k][2], groups[k][3]>>]

\* final_concepts before the sort: (concept, count) of the groups that pass
\* the exclusion set and the length test.
SurvivingConcepts(text, seed) ==
    SelectSeq(GroupValues(concept_groups(text, seed)), LAMBDA v : Survives(v[1]))

\* final_concepts.sort(key=lambda x: x[1], reverse=True): stable
\* A faulty variant: the sort without reverse=True, smallest count first.
InsertByCountAscending(sorted, x) ==
    LET p == Cardinality({j \in 1..Len(sorted) : sorted[j][2] <= x[2]})
    IN  SubSeq(sorted, 1, p) \o <<x>> \o SubSeq(sorted, p + 1, Len(sorted))

InsertByCount(sorted, x) ==
    LET p == Cardinality({j \in 1..Len(sorted) : sorted[j][2] >= x[2]})
    IN  SubSeq(sorted, 1, p) \o <<x>> \o SubSeq(sorted, p + 1, Len(sorted))

SortByCount(list) ==
    Loop(LAMBDA sorted, i : InsertByCount(sorted, list[i]), 1, Len(list), <<>>)

final_concepts(text, seed) == SortByCount(SurvivingConcepts(text, seed))

\* list[:n]
Slice(list, n) == SubSeq(list, 1, IF Len(list) < n THEN Len(list) ELSE n)

\* [concept for concept, _ in ...]
ConceptsOf(pairs) == [k \in 1..Len(pairs) |-> pairs[k][1]]

extract_key_concepts(text, seed) ==
    ConceptsOf(Slice(final_concepts(text, seed), 10))

(***************************************************************************)
(* generate_executive_summary                                              *)
(***************************************************************************)
practical_markers ==
    << <<"e","x","a","m","p","l","e">>,
       <<"t","u","t","o","r","i","a","l">>,
       <<"h","o","w"," ","t","o">>,
       <<"s","t","e","p"," ","b","y"," ","s","t","e","p">> >>

best_practice_markers ==
    << <<"b","e","s","t"," ","p","r","a","c","t","i","c","e">>,
       <<"p","a","t","t","e","r","n">>,
       <<"a","r","c","h","i","t","e","c","t","u","r","e">> >>

\* any(term in text.lower() for term in markers)
AnyMarker(text, markers) ==
    \E k \in 1..Len(markers) : str_contains(str_lower(text.body), markers[k])

\* The five rules, each appending to the insights so far.
ClassificationRule(insights, is_technical) ==
    IF is_technical
    THEN Append(Append(insights,
             "Technical content - requires focused reading time"),
             "Recommended for technical team members and decision makers")
    ELSE Append(insights, "General content - suitable for broader audience")

LengthRule(insights, word_count) ==
    IF word_count > 100000
    THEN Append(Append(insights,
             "Comprehensive resource - plan multiple reading sessions"),
             "Consider creating team reading schedule")
    ELSE IF word_count > 50000
    THEN Append(insights, "Substantial content - allocate dedicated time blocks")
    ELSE Append(insights, "Concise content - can be completed in single session")

ConceptRule(insights, concepts) ==
    IF Len(concepts) > 10
    THEN Append(Append(insights,
             "Covers multiple technologies - good for technology overview"),
             "Identify relevant sections for your specific use case")
    ELSE IF Len(concepts) > 5
    THEN Append(insights, "Focused on specific technology stack")
    ELSE insights

PracticalRule(insights, text) ==
    IF AnyMarker(text, practical_markers)
    THEN Append(insights,
             "Contains practical examples - schedule hands-on practice time")
    ELSE insights

BestPracticeRule(insights, text) ==
    IF AnyMarker(text, best_practice_markers)
    THEN Append(insights, "Includes best practices - extract actionable guidelines")
    ELSE insights

\* insights at the return statement
AllInsights(text, seed) ==
    BestPracticeRule(
        PracticalRule(
            ConceptRule(
                LengthRule(
                    ClassificationRule(<<>>, detect_technical_content(text)),
                    get_num_words(text)),
                extract_key_concepts(text, seed)),
            text),
        text)

\* A faulty variant: the list is cut to five.
generate_executive_summary_five(text, seed) == Slice(AllInsights(text, seed), 5)

\* A faulty variant: the list is returned whole.
generate_executive_summary_whole(text, seed) == AllInsights(text, seed)

generate_executive_summary(text, seed) == Slice(AllInsights(text, seed), 6)

(***************************************************************************)
(* The program: main reads the text and calls analyze_text, which fills    *)
(* results one statement at a time.                                        *)
(***************************************************************************)
VARIABLES
    text,        \* the document read by get_book_text
    hashSeed,    \* the str hash seed of the running interpreter
    pc,          \* the statement of analyze_text to execute next
    results,     \* analyze_text's results dict
    chars_dict,  \* analyze_text's local chars_dict
    previous     \* the results of an earlier run on the same text, if any

vars == <<text, hashSeed, pc, results, chars_dict, previous>>

NoResults == [k \in {} |-> {}]

\* The excerpts of the book: paragraphs first..last of Corpus, none when
\* last < first.
Documents ==
    {<<1, 0>>} \cup
    {<<first, last>> \in (1..Len(Corpus)) \X (1..Len(Corpus)) :
        first <= last /\ last < first + MaxParas}

RECURSIVE Flatten(_, _)
Flatten(first, last) ==
    IF first > last THEN <<>> ELSE Corpus[first] \o Flatten(first + 1, last)

\* The maximal runs of characters that are not whitespace, by where they end.
RunEnds(s) ==
    {i \in 1..Len(s) :
        /\ s[i] \notin Whitespace
        /\ i = Len(s) \/ s[i + 1] \in Whitespace}

\* The document with the given body, filled up to target words when the
\* body has fewer.
MakeText(body, target) ==
    [body   |-> body,
     filler |-> IF target > Cardinality(RunEnds(body))
                THEN target - Cardinality(RunEnds(body))
                ELSE 0]

Init ==
    /\ \E doc \in Documents, target \in WordTargets \cup {0} :
           text = MakeText(Flatten(doc[1], doc[2]), target)
    /\ hashSeed \in 1..MaxSeed
    /\ pc = "word_count"
    /\ results = NoResults
    /\ chars_dict = <<>>
    /\ previous = NoResults

\* results['word_count'] = get_num_words(text)
WordCount ==
    /\ pc = "word_count"
    /\ results' = results @@ ("word_count" :> get_num_words(text))
    /\ pc' = "reading_time"
    /\ UNCHANGED <<text, hashSeed, chars_dict, previous>>

\* results['reading_time'] = estimate_reading_time(text)
ReadingTime ==
    /\ pc = "reading_time"
    /\ results' = results @@ ("reading_time" :> estimate_reading_time(text))
    /\ pc' = "chars_dict"
    /\ UNCHANGED <<text, hashSeed, chars_dict, previous>>

\* chars_dict = get_chars_dict(text)
CharsDict ==
    /\ pc = "chars_dict"
    /\ chars_dict' = get_chars_dict(text)
    /\ pc' = "char_analysis"
    /\ UNCHANGED <<text, hashSeed, results, previous>>

\* results['char_analysis'] = chars_dict_to_sorted_list(chars_dict)
CharAnalysis ==
    /\ pc = "char_analysis"
    /\ results' = results @@ ("char_analysis" :> chars_dict_to_sorted_list(chars_dict))
    /\ pc' = "key_concepts"
    /\ UNCHANGED <<text, hashSeed, chars_dict, previous>>

\* results['key_concepts'] = extract_key_concepts(text)
KeyConcepts ==
    /\ pc = "key_concepts"
    /\ results' = results @@ ("key_concepts" :> extract_key_concepts(text, hashSeed))
    /\ pc' = "executive_summary"
    /\ UNCHANGED <<text, hashSeed, chars_dict, previous>>

\* results['executive_summary'] = generate_executive_summary(text); return results
ExecutiveSummary ==
    /\ pc = "executive_summary"
    /\ results' = results @@
           ("executive_summary" :> generate_executive_summary(text, hashSeed))
    /\ pc' = "done"
    /\ UNCHANGED <<text, hashSeed, chars_dict, previous>>

\* The program is run once more on the same file: a new interpreter, and
\* with it a new hash seed.
Rerun ==
    /\ pc = "done"
    /\ previous = NoResults
    /\ previous' = results
    /\ results' = NoResults
    /\ chars_dict' = <<>>
    /\ hashSeed' \in 1..MaxSeed
    /\ pc' = "word_count"
    /\ UNCHANGED text

Next ==
    \/ WordCount
    \/ ReadingTime
    \/ CharsDict
    \/ CharAnalysis
    \/ KeyConcepts
    \/ ExecutiveSummary

Spec == Init /\ [][Next]_vars

NextRerun ==
    \/ WordCount
    \/ ReadingTime
    \/ CharsDict
    \/ CharAnalysis
    \/ KeyConcepts
    \/ ExecutiveSummary
    \/ Rerun

SpecRerun == Init /\ [][NextRerun]_vars

(***************************************************************************)
(* The filler of a document stands for its expanded text: on a document    *)
(* small enough to expand, every function gives the same value for the     *)
(* document and for its text written out.                                  *)
(***************************************************************************)
Expanded == [body |-> Expand(text), filler |-> 0]

FillerExact ==
    (pc = "word_count" /\ text.filler <= 12) =>
        /\ get_num_words(text) = get_num_words(Expanded)
        /\ get_chars_dict(text) = get_chars_dict(Expanded)
        /\ technical_score(text) = technical_score(Expanded)
        /\ found_concepts(text, hashSeed) = found_concepts(Expanded, hashSeed)
        /\ AnyMarker(text, practical_markers) = AnyMarker(Expanded, practical_markers)
        /\ AnyMarker(text, best_practice_markers)
               = AnyMarker(Expanded, best_practice_markers)

(***************************************************************************)
(* Properties of generate_executive_summary.                               *)
(***************************************************************************)
\* The insights of the five rules, each rule's after the one before it.
RuleOrderedList(is_technical, word_count, concept_count, practical, best_practice) ==
    (IF is_technical
     THEN <<"Technical content - requires focused reading time",
            "Recommended for technical team members and decision makers">>
     ELSE <<"General content - suitable for broader audience">>)
    \o (IF word_count > 100000
        THEN <<"Comprehensive resource - plan multiple reading sessions",
               "Consider creating team reading schedule">>
        ELSE IF word_count > 50000
        THEN <<"Substantial content - allocate dedicated time blocks">>
        ELSE <<"Concise content - can be completed in single session">>)
    \o (IF concept_count > 10
        THEN <<"Covers multiple technologies - good for technology overview",
               "Identify relevant sections for your specific use case">>
        ELSE IF concept_count > 5
        THEN <<"Focused on specific technology stack">>
        ELSE <<>>)
    \o (IF practical
        THEN <<"Contains practical examples - schedule hands-on practice time">>
        ELSE <<>>)
    \o (IF best_practice
        THEN <<"Includes best practices - extract actionable guidelines">>
        ELSE <<>>)

\* summary is the first six entries of list, or all of list when it has fewer.
FirstSixOf(summary, list) ==
    /\ Len(summary) <= 6
    /\ Len(summary) = (IF Len(list) < 6 THEN Len(list) ELSE 6)
    /\ \A k \in 1..Len(summary) : summary[k] = list[k]

\* C1: the executive summary is exactly the first six entries of the list
\* the rules build in their fixed order (classification, word-count band,
\* concept-count band, practical-content marker, best-practice marker): it
\* never has more than 6 entries and is a prefix of that list.  A text that
\* is not technical, has at most 50,000 words, at most 5 concepts and no
\* marker yields exactly the "General content" and "Concise content" entries.
C1_SummaryIsFirstSix ==
    pc = "done" =>
        /\ FirstSixOf(results.executive_summary,
               RuleOrderedList(detect_technical_content(text),
                               results.word_count,
                               Len(results.key_concepts),
                               AnyMarker(text, practical_markers),
                               AnyMarker(text, best_practice_markers)))
        /\ ( /\ ~detect_technical_content(text)
             /\ results.word_count <= 50000
             /\ Len(results.key_concepts) <= 5
             /\ ~AnyMarker(text, practical_markers)
             /\ ~AnyMarker(text, best_practice_markers) )
           => results.executive_summary =
                  <<"General content - suitable for broader audience",
                    "Concise content - can be completed in single session">>

\* The rules built seven insights and the summary was returned: the case
\* where the cut to six takes something away.
C1_Witness ==
    /\ pc = "done"
    /\ Len(AllInsights(text, hashSeed)) = 7
    /\ Len(results.executive_summary) = 6

(***************************************************************************)
(* Two runs on one text.                                                   *)
(***************************************************************************)
\* C2: running analyze_text twice on the same text yields the same output
\* in every field, the order and the membership of the key concepts
\* included; nothing but the text decides a result, the iteration order of
\* the vocabulary in particular does not.
C2_SameOutputTwice ==
    (pc = "done" /\ previous # NoResults) => results = previous

(***************************************************************************)
(* Properties of extract_key_concepts.                                     *)
(***************************************************************************)
\* The display string lowercased, with spaces, dots and hyphens removed.
NormalizedKey(display) ==
    SelectSeq(str_lower(display), LAMBDA c : c \notin {" ", ".", "-"})

\* C3: the list extract_key_concepts returns has at most 10 entries, and no
\* two of them have the same normalized key.
C3_CappedAndDistinct ==
    pc = "executive_summary" =>
        /\ Len(results.key_concepts) <= 10
        /\ \A i, j \in 1..Len(results.key_concepts) :
               i # j => NormalizedKey(results.key_concepts[i])
                            # NormalizedKey(results.key_concepts[j])

\* The concepts were returned for a text in which two concepts found share
\* a key and more than ten concepts pass the filter.
C3_Witness ==
    /\ pc = "executive_summary"
    /\ Len(results.key_concepts) = 10
    /\ Len(concept_groups(text, hashSeed)) < Len(found_concepts(text, hashSeed))
    /\ Len(SurvivingConcepts(text, hashSeed)) > 10

(***************************************************************************)
(* Properties of chars_dict_to_sorted_list.                                *)
(***************************************************************************)
\* Where the histogram holds character c: its place in insertion order.
InsertionPlace(c) == CHOOSE k \in 1..Len(chars_dict) : chars_dict[k][1] = c

\* C4: chars_dict_to_sorted_list returns a permutation of the histogram's
\* entries with counts non-increasing, entries of equal count in the order
\* their characters were first inserted: the stable descending sort.
C4_StableDescending ==
    pc = "key_concepts" =>
        /\ Len(results.char_analysis) = Len(chars_dict)
        /\ \A k \in 1..Len(chars_dict) :
               \E j \in 1..Len(results.char_analysis) :
                   results.char_analysis[j] =
                       [char |-> chars_dict[k][1], num |-> chars_dict[k][2]]
        /\ \A j \in 1..Len(results.char_analysis) :
               HasKey(chars_dict, results.char_analysis[j].char)
        /\ \A i, j \in 1..Len(results.char_analysis) :
               i < j =>
                   \/ results.char_analysis[i].num > results.char_analysis[j].num
                   \/ /\ results.char_analysis[i].num = results.char_analysis[j].num
                      /\ InsertionPlace(results.char_analysis[i].char)
                             < InsertionPlace(results.char_analysis[j].char)

\* The ranking was computed, holds entries of equal count next to each
\* other, and differs from the insertion order.
C4_Witness ==
    /\ pc = "key_concepts"
    /\ \E i \in 1..(Len(results.char_analysis) - 1) :
           results.char_analysis[i].num = results.char_analysis[i + 1].num
    /\ \E k \in 1..Len(chars_dict) :
           results.char_analysis[k].char # chars_dict[k][1]

(***************************************************************************)
(* Properties of get_chars_dict.                                           *)
(***************************************************************************)
\* The positions of the text whose lowercased character is c.
Occurrences(c) ==
    Cardinality({i \in 1..Len(text.body) : char_lower(text.body[i]) = c})
        + (IF c \in SeqToSet(FillerWord) THEN text.filler ELSE 0)

\* C5: the counts of the histogram sum to the length of the text; every
\* position adds one to the entry of its lowercased character, so the upper-
\* and the lower-case form of a letter share an entry; every count is
\* positive.
C5_CountsSumToLength ==
    pc = "char_analysis" =>
        /\ Loop(LAMBDA sum, k : sum + chars_dict[k][2], 1, Len(chars_dict), 0)
               = Len(text.body) + (Len(FillerWord) * text.filler)
        /\ \A k \in 1..Len(chars_dict) :
               /\ chars_dict[k][2] > 0
               /\ chars_dict[k][2] = Occurrences(chars_dict[k][1])
               /\ chars_dict[k][1] \notin UpperSet
               /\ \A j \in 1..Len(chars_dict) :
                      j # k => chars_dict[j][1] # chars_dict[k][1]
        /\ \A i \in 1..Len(text.body) :
               HasKey(chars_dict, char_lower(text.body[i]))

\* The histogram was computed for a text that holds a letter in both cases.
C5_Witness ==
    /\ pc = "char_analysis"
    /\ \E i, j \in 1..Len(text.body) :
           /\ text.body[i] \in UpperSet
           /\ text.body[j] = ToLower[text.body[i]]
           /\ \E k \in 1..Len(chars_dict) :
                  chars_dict[k] = <<text.body[j], Occurrences(text.body[j])>>

(***************************************************************************)
(* Properties of get_num_words.                                            *)
(***************************************************************************)
\* C6: get_num_words returns the number of maximal runs of non-whitespace
\* characters of the text: whitespace at either end is ignored, a run of
\* whitespace separates once, and a text that is empty or all whitespace
\* yields 0.
C6_CountsRuns ==
    "word_count" \in DOMAIN results =>
        /\ results.word_count = Cardinality(RunEnds(text.body)) + text.filler
        /\ ( /\ text.filler = 0
             /\ \A i \in 1..Len(text.body) : text.body[i] \in Whitespace )
           => results.word_count = 0

\* The words were counted in a text that starts and ends with whitespace
\* and holds two whitespace characters in a row between two words.
C6_Witness ==
    /\ "word_count" \in DOMAIN results
    /\ results.word_count > 1
    /\ text.filler = 0
    /\ text.body[1] \in Whitespace
    /\ text.body[Len(text.body)] \in Whitespace
    /\ \E i \in 2..(Len(text.body) - 2) :
           /\ text.body[i - 1] \notin Whitespace
           /\ text.body[i] \in Whitespace
           /\ text.body[i + 1] \in Whitespace
           /\ \E j \in (i + 2)..Len(text.body) : text.body[j] \notin Whitespace

(***************************************************************************)
(* Properties of detect_technical_content.                                 *)
(***************************************************************************)
\* The indicator terms of the given weight that occur in the lowered text.
IndicatorsPresent(lowered, weight) ==
    {k \in 1..Len(technical_indicators) :
        /\ technical_indicators[k][2] = weight
        /\ str_contains(lowered, technical_indicators[k][1])}

LanguagesPresent(lowered) ==
    {k \in 1..Len(programming_languages) :
        str_contains(lowered, programming_languages[k])}

\* Each term present adds its weight once, each language present adds 3.
PresenceScore(lowered) ==
    (3 * Cardinality(IndicatorsPresent(lowered, 3)))
        + (2 * Cardinality(IndicatorsPresent(lowered, 2)))
        + Cardinality(IndicatorsPresent(lowered, 1))
        + (3 * Cardinality(LanguagesPresent(lowered)))

\* C7: detect_technical_content returns true exactly when the score is at
\* least 10, the score being the sum of the weights (3, 2 or 1) of the terms
\* that occur at least once in the text, case ignored, plus 3 for each
\* language name that does; a term or a name counts once however often it
\* occurs.
C7_PresenceScoreAtLeastTen ==
    pc = "done" =>
        /\ \A k \in 1..Len(technical_indicators) :
               technical_indicators[k][2] \in {1, 2, 3}
        /\ technical_score(text) = PresenceScore(str_lower(text.body))
        /\ detect_technical_content(text)
               <=> PresenceScore(str_lower(text.body)) >= 10
        /\ results.executive_summary[1]
               = "Technical content - requires focused reading time"
               <=> PresenceScore(str_lower(text.body)) >= 10

\* A run has ended on a text that scores exactly 10 with a term in it
\* twice, and the summary calls it technical.
C7_Witness ==
    /\ pc = "done"
    /\ PresenceScore(str_lower(text.body)) = 10
    /\ \E k \in 1..Len(technical_indicators) :
           str_count(str_lower(text.body), technical_indicators[k][1]) > 1
    /\ results.executive_summary[1]
           = "Technical content - requires focused reading time"

\* The texts added in C8: every paragraph of the book, and the text itself.
AddedTexts == SeqToSet(Corpus) \cup {text.body}

\* C8: a text classified technical stays technical when any text is
\* appended or prepended to it, further occurrences of its own terms
\* included.  (The text of a document ends with its filler: the model
\* appends to a document without filler.)
C8_MonotoneUnderAdding ==
    ( /\ pc = "done"
      /\ detect_technical_content(text)
      /\ results.executive_summary[1]
             = "Technical content - requires focused reading time" ) =>
        \A u \in AddedTexts :
            /\ detect_technical_content(
                   [body |-> u \o text.body, filler |-> text.filler])
            /\ text.filler = 0 =>
                   detect_technical_content(
                       [body |-> text.body \o u, filler |-> 0])

\* A run has called a text technical that is at the threshold exactly, and
\* there is a text to add that is not technical itself.
C8_Witness ==
    /\ pc = "done"
    /\ results.executive_summary[1]
           = "Technical content - requires focused reading time"
    /\ text.filler = 0
    /\ technical_score(text) = 10
    /\ \E u \in AddedTexts : ~detect_technical_content([body |-> u, filler |-> 0])

\* C9: the text "algorithm" five times, "architecture" three times and
\* "security" three times, separated by spaces, scores at least 10 and is
\* classified technical.
C9_ScenarioIsTechnical ==
    text = [body |-> ParaScenario, filler |-> 0] =>
        /\ technical_score(text) >= 10
        /\ detect_technical_content(text)
        /\ pc = "done" =>
               results.executive_summary[1]
                   = "Technical content - requires focused reading time"

\* The run on the scenario text has ended.
C9_Witness ==
    /\ text = [body |-> ParaScenario, filler |-> 0]
    /\ str_count(text.body, <<"a","l","g","o","r","i","t","h","m">>) = 5
    /\ str_count(text.body, <<"a","r","c","h","i","t","e","c","t","u","r","e">>) = 3
    /\ str_count(text.body, <<"s","e","c","u","r","i","t","y">>) = 3
    /\ pc = "done"
    /\ "executive_summary" \in DOMAIN results

(***************************************************************************)
(* Properties of estimate_reading_time.                                    *)
(***************************************************************************)
\* A time of whole minutes as it is shown.
Shown(minutes) ==
    IF minutes \div 60 = 0
    THEN int_str(minutes % 60) \o <<"m">>
    ELSE int_str(minutes \div 60) \o <<"h", " ">> \o int_str(minutes % 60) \o <<"m">>

\* The reading time of w words at the two speeds.  The estimates w / fast
\* and w / slow differ by less than 30 exactly when w * (fast - slow) is
\* less than 30 * fast * slow; the single estimate is their mean.
ReadingTimeAt(w, fast, slow) ==
    IF w * (fast - slow) < 30 * fast * slow
    THEN <<"~">> \o Shown((w * (fast + slow)) \div (2 * fast * slow))
    ELSE Shown(w \div fast) \o <<" ", "-", " ">> \o Shown(w \div slow)

\* C10: with w the word count, estimate_reading_time reads at 250 (fast)
\* and 150 (slow) words a minute when the text is technical, at 350 and 200
\* otherwise; when w/fast and w/slow differ by less than 30 minutes it
\* returns one estimate after "~", otherwise "{fast} - {slow}", the shorter
\* time first; every time shown is rounded down to whole minutes and reads
\* "{h}h {m}m", h = minutes div 60 and m = minutes mod 60, without the hours
\* when h is 0.
C10_ReadingTime ==
    pc = "chars_dict" =>
        results.reading_time =
            IF detect_technical_content(text)
            THEN ReadingTimeAt(results.word_count, 250, 150)
            ELSE ReadingTimeAt(results.word_count, 350, 200)

\* The reading time was computed for a technical text whose two estimates
\* differ by 30 minutes exactly, the slower one past the hour.
C10_Witness ==
    /\ pc = "chars_dict"
    /\ detect_technical_content(text)
    /\ results.word_count = 11250
    /\ results.reading_time
           = <<"4","5","m"," ","-"," ","1","h"," ","1","5","m">>

(***************************************************************************)
(* The empty text.                                                         *)
(***************************************************************************)
EmptyText == [body |-> <<>>, filler |-> 0]

\* C11: on the empty string every core function returns a value and none
\* raises: get_num_words returns 0, get_chars_dict the empty histogram and
\* its ranking is empty, extract_key_concepts returns the empty list, and
\* estimate_reading_time the zero-minute estimate, "0m" after the "~" of
\* the range policy.  (A function that returns hands its value to the run:
\* at every statement of the run on the empty text the fields set so far
\* are the ones the statements before it set.)
C11_EmptyTextIsHandled ==
    text = EmptyText =>
        /\ DOMAIN results =
               CASE pc = "word_count" -> {}
                 [] pc = "reading_time" -> {"word_count"}
                 [] pc \in {"chars_dict", "char_analysis"} ->
                        {"word_count", "reading_time"}
                 [] pc = "key_concepts" ->
                        {"word_count", "reading_time", "char_analysis"}
                 [] pc = "executive_summary" ->
                        {"word_count", "reading_time", "char_analysis",
                         "key_concepts"}
                 [] pc = "done" ->
                        {"word_count", "reading_time", "char_analysis",
                         "key_concepts", "executive_summary"}
        /\ "word_count" \in DOMAIN results => results.word_count = 0
        /\ "reading_time" \in DOMAIN results =>
               results.reading_time = <<"~", "0", "m">>
        /\ pc \in {"char_analysis", "key_concepts", "executive_summary", "done"} =>
               chars_dict = <<>>
        /\ "char_analysis" \in DOMAIN results => results.char_analysis = <<>>
        /\ "key_concepts" \in DOMAIN results => results.key_concepts = <<>>

\* The run on the empty text has ended with every field of the results set.
C11_Witness ==
    /\ text = EmptyText
    /\ pc = "done"
    /\ DOMAIN results = {"word_count", "reading_time", "char_analysis",
                         "key_concepts", "executive_summary"}

(***************************************************************************)
(* The order and the choice of the key concepts.                           *)
(***************************************************************************)
\* The count of a concept among (concept, count) pairs that hold it.
CountAmong(pairs, concept) ==
    pairs[CHOOSE k \in 1..Len(pairs) : pairs[k][1] = concept][2]

\* returned is the top ten by count of the surviving (concept, count) pairs.
TopTenByCount(returned, survivors) ==
    /\ Len(returned) = (IF Len(survivors) < 10 THEN Len(survivors) ELSE 10)
    /\ \A i \in 1..Len(returned) :
           \E k \in 1..Len(survivors) : survivors[k][1] = returned[i]
    /\ \A i, j \in 1..Len(returned) :
           i # j => returned[i] # returned[j]
    /\ \A i \in 1..(Len(returned) - 1) :
           CountAmong(survivors, returned[i]) >= CountAmong(survivors, returned[i + 1])
    /\ \A k \in 1..Len(survivors) :
           (\A i \in 1..Len(returned) : returned[i] # survivors[k][1]) =>
               \A i \in 1..Len(returned) :
                   survivors[k][2] <= CountAmong(survivors, returned[i])

\* C12: the list extract_key_concepts returns is ordered by occurrence
\* count, largest first, and is the top 10 of the surviving candidates:
\* counts do not increase along the list, and a surviving candidate that is
\* not returned has a count no greater than that of any returned concept.
C12_TopTenByCount ==
    pc = "executive_summary" =>
        TopTenByCount(results.key_concepts, SurvivingConcepts(text, hashSeed))

\* The concepts were returned for a text with more than ten survivors, and
\* the returned counts are not all equal.
C12_Witness ==
    /\ pc = "executive_summary"
    /\ Len(SurvivingConcepts(text, hashSeed)) > 10
    /\ CountAmong(SurvivingConcepts(text, hashSeed), results.key_concepts[1])
           > CountAmong(SurvivingConcepts(text, hashSeed), results.key_concepts[10])

(***************************************************************************)
(* Rule 3 of generate_executive_summary.                                   *)
(***************************************************************************)
IsIn(list, x) == \E k \in 1..Len(list) : list[k] = x

\* The number of concepts extract_key_concepts reports for an excerpt of the
\* book under a hash seed.
ReportedCount(doc, seed) ==
    Len(extract_key_concepts(MakeText(Flatten(doc[1], doc[2]), 0), seed))

\* What rule 3 appends for n reported concepts, as the list it built holds it.
RuleThreeAppends(insights, n) ==
    /\ IsIn(insights, "Covers multiple technologies - good for technology overview")
           <=> n > 10
    /\ IsIn(insights, "Identify relevant sections for your specific use case")
           <=> n > 10
    /\ IsIn(insights, "Focused on specific technology stack")
           <=> (n > 5 /\ n <= 10)

\* C13: rule 3 appends the two broad-coverage insights when
\* extract_key_concepts reports more than 10 concepts for the text, the one
\* "Focused on specific technology stack" insight when it reports more than
\* 5 and at most 10, and nothing with 5 or fewer; and each of the three
\* cases occurs for some input text.
C13_RuleThreeCasesOccur ==
    /\ pc = "done" =>
           RuleThreeAppends(AllInsights(text, hashSeed), Len(results.key_concepts))
    /\ \E doc \in Documents, seed \in 1..MaxSeed : ReportedCount(doc, seed) <= 5
    /\ \E doc \in Documents, seed \in 1..MaxSeed :
           ReportedCount(doc, seed) > 5 /\ ReportedCount(doc, seed) <= 10
    /\ \E doc \in Documents, seed \in 1..MaxSeed : ReportedCount(doc, seed) > 10

\* What holds in place of the last part of C13: no run reports more than 10
\* concepts, a text in which more than 10 pass the filters included, so no
\* summary holds a broad-coverage insight.
BroadCoverageNeverAppended ==
    pc = "done" =>
        /\ Len(results.key_concepts) <= 10
        /\ RuleThreeAppends(AllInsights(text, hashSeed), Len(results.key_concepts))
        /\ ~IsIn(AllInsights(text, hashSeed),
                 "Covers multiple technologies - good for technology overview")
        /\ Len(SurvivingConcepts(text, hashSeed)) > 10 =>
               IsIn(results.executive_summary, "Focused on specific technology stack")

(***************************************************************************)
(* The filters of extract_key_concepts.                                    *)
(***************************************************************************)
\* The places of s where sub occurs.
OccurrencesOf(s, sub) == {i \in 1..Len(s) : StartsAt(s, i, sub)}

\* concept is the display form of a vocabulary term that occurs at least 3
\* times in the lowered text.
IsFrequentTerm(concept, lowered) ==
    \E k \in 1..Len(known_technical_terms) :
        /\ DisplayForm(known_technical_terms[k]) = concept
        /\ Cardinality(OccurrencesOf(lowered, known_technical_terms[k])) >= 3

\* concept is a listed product name that occurs at least 2 times in the
\* text as it is written.
IsFrequentProduct(concept, s) ==
    /\ concept \in SeqToSet(tech_name_pattern)
    /\ Cardinality(OccurrencesOf(s, concept)) >= 2

PassedAllFilters(concept, s) ==
    /\ IsFrequentTerm(concept, str_lower(s)) \/ IsFrequentProduct(concept, s)
    /\ str_lower(concept) \notin SeqToSet(exclusions)
    /\ Len(concept) >= 3

\* C14: every concept extract_key_concepts returns passed all filters: it
\* is the display form of a vocabulary term that occurs at least 3 times in
\* the text, case ignored, or a listed product name that occurs at least 2
\* times as written; its lowercased form is not in the exclusion set; and
\* it has at least 3 characters.
C14_ReturnedPassedFilters ==
    pc = "executive_summary" =>
        \A i \in 1..Len(results.key_concepts) :
            PassedAllFilters(results.key_concepts[i], text.body)

\* The concepts were returned for a text in which a candidate was found and
\* filtered out, and the list holds a vocabulary term and a product name.
C14_Witness ==
    /\ pc = "executive_summary"
    /\ \E k \in 1..Len(found_concepts(text, hashSeed)) :
           ~Survives(found_concepts(text, hashSeed)[k][1])
    /\ \E i \in 1..Len(results.key_concepts) :
           IsFrequentTerm(results.key_concepts[i], str_lower(text.body))
    /\ \E i \in 1..Len(results.key_concepts) :
           /\ IsFrequentProduct(results.key_concepts[i], text.body)
           /\ ~IsFrequentTerm(results.key_concepts[i], str_lower(text.body))

(***************************************************************************)
(* Candidates that share a normalized key.                                 *)
(***************************************************************************)
\* Among the candidates found, in the order they were collected, the one
\* kept for a key: of the highest count, and the first of those.
KeptFor(found, key) ==
    CHOOSE k \in 1..Len(found) :
        /\ NormalizedKey(found[k][1]) = key
        /\ \A j \in 1..Len(found) :
               NormalizedKey(found[j][1]) = key =>
                   \/ found[j][2] < found[k][2]
                   \/ found[j][2] = found[k][2] /\ k <= j

\* groups holds one entry for every key among found, that of KeptFor.
OnePerKey(groups, found) ==
    /\ \A i \in 1..Len(found) :
           \E g \in 1..Len(groups) : groups[g][1] = NormalizedKey(found[i][1])
    /\ \A g, h \in 1..Len(groups) : g # h => groups[g][1] # groups[h][1]
    /\ \A g \in 1..Len(groups) :
           /\ \E i \in 1..Len(found) : NormalizedKey(found[i][1]) = groups[g][1]
           /\ groups[g][2] = found[KeptFor(found, groups[g][1])][1]
           /\ groups[g][3] = found[KeptFor(found, groups[g][1])][2]

\* Every returned concept is the one kept for its key.
ReturnedAreKept(returned, found) ==
    \A i \in 1..Len(returned) :
        /\ \E k \in 1..Len(found) : found[k][1] = returned[i]
        /\ returned[i] = found[KeptFor(found, NormalizedKey(returned[i]))][1]

\* C15: of several candidates with one normalized key (the vocabulary term
\* 'mongodb' shown as "Mongodb" and the product name "MongoDB", say)
\* extract_key_concepts keeps exactly one, the one of the highest count, in
\* that candidate's display form; of equal counts it keeps the one collected
\* first, the vocabulary term, which is collected before the product names.
C15_KeepsHighestThenFirst ==
    pc = "executive_summary" =>
        /\ OnePerKey(concept_groups(text, hashSeed), found_concepts(text, hashSeed))
        /\ ReturnedAreKept(results.key_concepts, found_concepts(text, hashSeed))

\* The concepts were returned for a text in which a vocabulary term and a
\* product name share a key with equal counts, and the term's form is in
\* the list.
SharedKeyReturned(returned, found) ==
    \E i, j \in 1..Len(found) :
        /\ i < j
        /\ found[i][1] # found[j][1]
        /\ NormalizedKey(found[i][1]) = NormalizedKey(found[j][1])
        /\ found[i][2] = found[j][2]
        /\ found[j][1] \in SeqToSet(tech_name_pattern)
        /\ IsIn(returned, found[i][1])
        /\ ~IsIn(returned, found[j][1])

C15_Witness ==
    /\ pc = "executive_summary"
    /\ SharedKeyReturned(results.key_concepts, found_concepts(text, hashSeed))

(***************************************************************************)
(* The length of the insight list and what the cut to six takes away.      *)
(***************************************************************************)
\* insights is the list the rules built, summary the list returned.
CutDropsOnlyLastRule(insights, summary) ==
    /\ Len(insights) >= 2
    /\ Len(insights) <= 7
    /\ Len(summary) >= 2
    /\ summary[1] \in {"Technical content - requires focused reading time",
                       "General content - suitable for broader audience"}
    /\ summary # insights =>
           insights = Append(summary,
               "Includes best practices - extract actionable guidelines")

\* C16: the list the rules build has between 2 and 7 entries, so the
\* summary has at least 2; its first entry is the classification insight;
\* the only insight the cut can drop is the last rule's, "Includes best
\* practices - extract actionable guidelines"; and it is dropped exactly
\* when the text is technical, has more than 100,000 words and more than 5
\* concepts, and holds a practical-content and a best-practice marker.
C16_InsightListBounds ==
    pc = "done" =>
        /\ CutDropsOnlyLastRule(AllInsights(text, hashSeed),
                                results.executive_summary)
        /\ results.executive_summary # AllInsights(text, hashSeed)
               <=> ( /\ detect_technical_content(text)
                     /\ results.word_count > 100000
                     /\ Len(results.key_concepts) > 5
                     /\ AnyMarker(text, practical_markers)
                     /\ AnyMarker(text, best_practice_markers) )

\* A run has ended whose summary lacks the best-practice insight the rules
\* had built.
C16_Witness ==
    /\ pc = "done"
    /\ AnyMarker(text, best_practice_markers)
    /\ ~IsIn(results.executive_summary,
             "Includes best practices - extract actionable guidelines")
    /\ IsIn(AllInsights(text, hashSeed),
            "Includes best practices - extract actionable guidelines")

=============================================================================
